---- MODULE Spec2Model ----
(***************************************************************************)
(* A model of rag-telegram: the one-shot ingestion run                     *)
(* (embed_and_store_db.js) and the long-running Telegram query service     *)
(* (chatbot.js).  External collaborators (axios, the text splitter, pg,    *)
(* PGVectorStore, OpenAI, the Telegram transport, signals and timers) are  *)
(* the environment: each awaited call returns or throws                    *)
(* nondeterministically, and timers and signals fire at any moment the     *)
(* event loop is free, that is between two awaits.                         *)
(***************************************************************************)
EXTENDS Integers, Sequences, FiniteSets, TLC

\* ------------------------------------------------------------------ bounds
\* Most rows an ingestion run's split may produce.
MaxDocs == 2
\* Most rows already in the table when a process starts.
MaxStored == 2
\* Inbound Telegram messages handled by one service process.
MaxMsgs == 2
\* SIGINT signals delivered to one service process.
MaxSigints == 2

\* Ingestion runs over the same source.
MaxRuns == 2
\* Longest text split.
MaxTextLen == 4
\* Largest number CHUNK_SIZE and CHUNK_OVERLAP are set to.
MaxChunk == 3
\* Most rows of documentos_rag a search runs over.
MaxRows == 5

\* ------------------------------------------------------- program constants
\* similaritySearch(text, 4)
TopK == 4
\* Number(process.env.CHUNK_SIZE) || 1000
DefaultChunkSize == 1000
\* Number(process.env.CHUNK_OVERLAP) || 100
DefaultChunkOverlap == 100
\* process.exit(0) of the watchdog callback
WatchdogExitCode == 0
\* process.exit(0) of the ingestion run's SIGINT handler
SigintExitCode == 0
\* process.exit(0) of the 500 ms timer set after a successful run
SuccessExitCode == 0
\* process.exit(1) of the main launcher's catch block
FailureExitCode == 1
\* process.exit(0) of the service's SIGINT handler
BotSigintExitCode == 0
\* process.exit(1) of the ingestion run's unhandledRejection handler
RejectionExitCode == 1
\* exit status of node when the module's top-level await rejects
BotCrashExitCode == 1

\* The environment options the two programs read.
Options == {"URL_REMOTE_TEXT", "PG", "OPENAI_API_KEY", "TELEGRAM_TOKEN"}

VARIABLES
    cfg,            \* the options that are set in the environment
    stored,         \* number of rows in the vector table
    \* ---- ingestion run
    stage,          \* pipeline state: Idle, Fetching, Chunking, EmbeddingStoring, Completed, Failed
    ipc,            \* the await the main launcher is suspended at
    pool,           \* embedAndStore's pool: "null", "open", "ending", "ended"
    poolAcquired,   \* number of new pg.Pool(...) evaluated
    poolEndCalls,   \* number of pool.end() calls
    exitTimeout,    \* the 30 s watchdog: "unset", "armed", "cleared", "fired"
    exitTimer,      \* the 500 ms exit timer: "unset", "armed", "fired"
    exited,         \* the ingestion process has exited
    exitCode,       \* its exit status (meaningful when exited)
    exitBy,         \* who called process.exit
    failedStep,     \* the awaited call that threw, or "none"
    pendingError,   \* embedAndStore's finally runs with an exception in flight
    trace,          \* history: the pipeline states entered, in order
    steps,          \* history: the awaited calls started, in order
    nDocs,          \* number of fragments splitIntoDocuments returned
    iUnhandled      \* history: promise rejections no handler took

ingestVars == <<stage, ipc, pool, poolAcquired, poolEndCalls, exitTimeout, exitTimer,
                exited, exitCode, exitBy, failedStep, pendingError, trace, steps, nDocs,
                iUnhandled>>

\* ---- query service
VARIABLES
    bpc,            \* the service process: "load", "initialize", "register", "running", "exited"
    bExitCode,      \* its exit status (meaningful when exited)
    bpool,          \* the shared pool: "open", "ending", "ended"
    bPoolEndCalls,  \* number of pool.end() calls
    sigints,        \* number of SIGINT received
    unhandled,      \* number of unhandledRejection events logged
    upc,            \* per message: the await its handler is suspended at
    text,           \* per message: the handler's text
    sent,           \* per message: the sendMessage calls made, in order
    delivered,      \* per message: the sendMessage calls that resolved, in order
    docs,           \* per message: docs.length of the retrieval, -1 before it returns
    llmCalls,       \* per message: number of llm.invoke calls
    thrown,         \* per message: the steps that threw, in order
    answer,         \* per message: the handler's answer while it is in scope
    vectorStore,    \* the module's vectorStore: "undefined" or "ready"
    overlapped      \* history: a step threw while another message was in flight

botVars == <<bpc, bExitCode, bpool, bPoolEndCalls, sigints, unhandled, upc, text, sent,
             delivered, docs, llmCalls, thrown, answer, vectorStore, overlapped>>

\* The retrieval and the splitting, each on its own inputs.
VARIABLES
    chunkEnv,       \* process.env.CHUNK_SIZE and CHUNK_OVERLAP
    table,          \* documentos_rag: per row, its distance to the query embedding
    question,       \* the trimmed text of the message
    rpc,            \* where the retrieval is: "off", "search", "build", "done"
    matchCount,     \* the LIMIT of the last search
    found,          \* the rows the search returned, in order
    prompt,         \* the prompt built from them
    rawText,        \* the text fetched
    cpc,            \* where the splitting is: "off", "split", "done", "threw"
    fragments,      \* pageContent of the documents created, in order
    batch,          \* the documents passed to addDocuments
    records,        \* the rows of the table the runs wrote, in insertion order
    runs,           \* ingestion runs that stored their batch
    uuids           \* how many identifiers uuid() has generated

funVars == <<chunkEnv, table, question, rpc, matchCount, found, prompt,
             rawText, cpc, fragments, batch, records, runs, uuids>>

\* What the storing of a batch works on.
storeVars == <<batch, records, runs, uuids>>

\* ------------------------------------------------------------ ingestion run

\* The pipeline states of the main launcher.
Stages == {"Idle", "Fetching", "Chunking", "EmbeddingStoring", "Completed", "Failed"}

\* The pipeline state in which each awaited call runs.
StageOf(step) ==
    CASE step = "fetchText" -> "Fetching"
      [] step = "splitIntoDocuments" -> "Chunking"
      [] OTHER -> "EmbeddingStoring"

\* ---- the splitter's options
\* What an environment variable may hold: nothing, text that is no number, or
\* the decimal text of a number (the empty text converts to 0).
Unset == [kind |-> "unset", n |-> 0]
NotANumber == [kind |-> "text", n |-> 0]
Num(k) == [kind |-> "num", n |-> k]
EnvValues == {Unset, NotANumber} \cup {Num(k) : k \in 0..MaxChunk}

\* Number(v) || dflt: NaN and 0 are falsy.
NumberOr(v, dflt) == IF v.kind = "num" /\ v.n # 0 THEN v.n ELSE dflt

\* The options the splitter is constructed with.
ChunkSize == NumberOr(chunkEnv.size, DefaultChunkSize)
ChunkOverlap == NumberOr(chunkEnv.overlap, DefaultChunkOverlap)

\* new RecursiveCharacterTextSplitter({chunkSize, chunkOverlap}) throws
\* "Cannot have chunkOverlap >= chunkSize".
SplitterRejects(size, overlap) == overlap >= size

\* The status of a process killed by SIGINT as a shell reports it: 128 + 2.
KilledBySigint == 130

\* The launcher's state before it runs.
IngestIdle ==
    /\ stage = "Idle"
    /\ pool = "null"
    /\ poolAcquired = 0
    /\ poolEndCalls = 0
    /\ exitTimeout = "unset"
    /\ exitTimer = "unset"
    /\ exited = FALSE
    /\ exitCode = 0
    /\ exitBy = "none"
    /\ failedStep = "none"
    /\ pendingError = FALSE
    /\ trace = <<"Idle">>
    /\ steps = <<>>
    /\ nDocs = 0
    /\ iUnhandled = 0

\* The ingestion process is started.
IngestInit == ipc = "start" /\ IngestIdle

\* The ingestion process is not run.
IngestOff == ipc = "off" /\ IngestIdle

\* process.exit(code): the process is gone, nothing runs afterwards.
ProcessExit(code, by) ==
    /\ exited' = TRUE
    /\ exitCode' = code
    /\ exitBy' = by
    /\ ipc' = "exited"

\* Entering a pipeline state.
Enter(s) ==
    /\ stage' = s
    /\ trace' = Append(trace, s)

\* Starting an awaited call.
Begin(step) ==
    /\ steps' = Append(steps, step)

\* The main launcher up to its first await: the watchdog is armed and
\* fetchText(url) is called, whatever the environment holds. The module body
\* has still to register the handlers.
MainStart ==
    /\ ipc = "start" /\ ~exited
    /\ exitTimeout' = "armed"
    /\ Enter("Fetching")
    /\ Begin("fetchText")
    /\ ipc' = "register"
    /\ UNCHANGED <<botVars, funVars, cfg, iUnhandled, stored, pool, poolAcquired,
                   poolEndCalls, exitTimer, exited, exitCode, exitBy, failedStep,
                   pendingError, nDocs>>

\* The module body after the launcher was called: the SIGINT and
\* unhandledRejection handlers are registered, and the launcher is suspended at
\* its await of fetchText.
IngestRegister ==
    /\ ipc = "register" /\ ~exited
    /\ ipc' = "fetchText"
    /\ UNCHANGED <<botVars, funVars, cfg, iUnhandled, stored, stage, pool,
                   poolAcquired, poolEndCalls, exitTimeout, exitTimer, exited,
                   exitCode, exitBy, failedStep, pendingError, trace, steps, nDocs>>

\* A retrying launcher (not the program's): the catch block starts over.
MainCatchRetry ==
    /\ Enter("Fetching")
    /\ exitTimeout' = exitTimeout
    /\ ipc' = "fetchText"
    /\ UNCHANGED <<exited, exitCode, exitBy>>

\* The main launcher's catch block: log, clearTimeout(exitTimeout), process.exit(1).
MainCatch ==
    /\ Enter("Failed")
    /\ exitTimeout' = "cleared"
    /\ ProcessExit(FailureExitCode, "main")

\* fetchText resolves: splitIntoDocuments(rawText) is called. The launcher
\* passes on whatever URL it has without looking at it, so the outcome of the
\* request is the network's alone.
FetchOk ==
    /\ ipc = "fetchText" /\ ~exited
    /\ Enter("Chunking")
    /\ Begin("splitIntoDocuments")
    /\ ipc' = "splitIntoDocuments"
    /\ UNCHANGED <<botVars, funVars, cfg, iUnhandled, stored, pool, poolAcquired,
                   poolEndCalls, exitTimeout, exitTimer, exited, exitCode, exitBy,
                   failedStep, pendingError, nDocs>>

\* fetchText rejects: the launcher's catch block runs.
FetchFail ==
    /\ ipc = "fetchText" /\ ~exited
    /\ failedStep' = "fetchText"
    /\ MainCatch
    /\ UNCHANGED <<botVars, funVars, cfg, iUnhandled, stored, pool, poolAcquired,
                   poolEndCalls, exitTimer, pendingError, steps, nDocs>>

\* splitIntoDocuments resolves with n fragments: embedAndStore(docs) runs up to
\* its first await, creating the pool and sending the liveness query.
SplitOk(n) ==
    /\ ipc = "splitIntoDocuments" /\ ~exited
    /\ ~SplitterRejects(ChunkSize, ChunkOverlap)
    /\ nDocs' = n
    /\ Enter("EmbeddingStoring")
    /\ pool' = "open"
    /\ poolAcquired' = poolAcquired + 1
    /\ Begin("SELECT 1")
    /\ ipc' = "SELECT 1"
    /\ UNCHANGED <<botVars, funVars, cfg, iUnhandled, stored, poolEndCalls,
                   exitTimeout, exitTimer, exited, exitCode, exitBy, failedStep,
                   pendingError>>

\* A launcher that logs the splitting error and goes on to store no
\* documents (not the program's).
SplitFailIgnored ==
    /\ ipc = "splitIntoDocuments" /\ ~exited
    /\ failedStep' = "splitIntoDocuments"
    /\ Enter("EmbeddingStoring")
    /\ ipc' = "SELECT 1"
    /\ UNCHANGED <<botVars, funVars, cfg, iUnhandled, stored, pool, poolAcquired,
                   poolEndCalls, exitTimer, pendingError, steps, nDocs, exitTimeout,
                   exited, exitCode, exitBy>>

\* splitIntoDocuments rejects: the launcher's catch block runs.
SplitFail ==
    /\ ipc = "splitIntoDocuments" /\ ~exited
    /\ failedStep' = "splitIntoDocuments"
    /\ MainCatch
    /\ UNCHANGED <<botVars, funVars, cfg, iUnhandled, stored, pool, poolAcquired,
                   poolEndCalls, exitTimer, pendingError, steps, nDocs>>

\* embedAndStore's finally block: if (pool) await pool.end().
FinallyCallsPoolEnd == pool # "null"

\* embedAndStore's catch (rethrow) and finally blocks up to the await of pool.end().
\* err: an exception is in flight.
Finally(err) ==
    /\ pendingError' = err
    /\ IF FinallyCallsPoolEnd
       THEN /\ pool' = "ending"
            /\ poolEndCalls' = poolEndCalls + 1
       ELSE UNCHANGED <<pool, poolEndCalls>>
    /\ ipc' = "pool.end"

\* new OpenAIEmbeddings() throws without an API key.
EmbeddingsCanConstruct == "OPENAI_API_KEY" \in cfg

\* An embedAndStore that writes right after the liveness query (not the
\* program's).
Select1OkSkipsSchema ==
    /\ ipc = "SELECT 1" /\ ~exited
    /\ Begin("addDocuments")
    /\ ipc' = "addDocuments"
    /\ UNCHANGED <<botVars, funVars, cfg, iUnhandled, stored, stage, pool,
                   poolAcquired, poolEndCalls, exitTimeout, exitTimer, exited,
                   exitCode, exitBy, failedStep, pendingError, trace, nDocs>>

\* pool.query("SELECT 1") resolves: PGVectorStore.initialize(new OpenAIEmbeddings(), ...)
\* is called; the constructor's throw goes to the catch block at once.
Select1Ok ==
    /\ ipc = "SELECT 1" /\ ~exited
    /\ IF EmbeddingsCanConstruct
       THEN /\ Begin("initialize")
            /\ ipc' = "initialize"
            /\ UNCHANGED <<pool, poolEndCalls, failedStep, pendingError>>
       ELSE /\ Begin("initialize")
            /\ failedStep' = "initialize"
            /\ Finally(TRUE)
    /\ UNCHANGED <<botVars, funVars, cfg, iUnhandled, stored, stage, poolAcquired,
                   exitTimeout, exitTimer, exited, exitCode, exitBy, trace, nDocs>>

\* pool.query("SELECT 1") rejects.
Select1Fail ==
    /\ ipc = "SELECT 1" /\ ~exited
    /\ failedStep' = "SELECT 1"
    /\ Finally(TRUE)
    /\ UNCHANGED <<botVars, funVars, cfg, iUnhandled, stored, stage, poolAcquired,
                   exitTimeout, exitTimer, exited, exitCode, exitBy, trace, steps,
                   nDocs>>

\* PGVectorStore.initialize resolves: vectorStore.addDocuments(batch) is called.
InitializeOk ==
    /\ ipc = "initialize" /\ ~exited
    /\ Begin("addDocuments")
    /\ ipc' = "addDocuments"
    /\ UNCHANGED <<botVars, funVars, cfg, iUnhandled, stored, stage, pool,
                   poolAcquired, poolEndCalls, exitTimeout, exitTimer, exited,
                   exitCode, exitBy, failedStep, pendingError, trace, nDocs>>

\* PGVectorStore.initialize rejects.
InitializeFail ==
    /\ ipc = "initialize" /\ ~exited
    /\ failedStep' = "initialize"
    /\ Finally(TRUE)
    /\ UNCHANGED <<botVars, funVars, cfg, iUnhandled, stored, stage, poolAcquired,
                   exitTimeout, exitTimer, exited, exitCode, exitBy, trace, steps,
                   nDocs>>

\* addDocuments resolves: every fragment is a row; return true, then finally.
AddDocumentsOk ==
    /\ ipc = "addDocuments" /\ ~exited
    /\ stored' = stored + nDocs
    /\ Finally(FALSE)
    /\ UNCHANGED <<botVars, funVars, cfg, iUnhandled, stage, poolAcquired, exitTimeout,
                   exitTimer, exited, exitCode, exitBy, failedStep, trace, steps,
                   nDocs>>

\* addDocuments rejects; k rows of the batch were written before it did.
AddDocumentsFail(k) ==
    /\ ipc = "addDocuments" /\ ~exited
    /\ k < nDocs \/ k = 0
    /\ stored' = stored + k
    /\ failedStep' = "addDocuments"
    /\ Finally(TRUE)
    /\ UNCHANGED <<botVars, funVars, cfg, iUnhandled, stage, poolAcquired, exitTimeout,
                   exitTimer, exited, exitCode, exitBy, trace, steps, nDocs>>

\* What the launcher's success path leaves of the watchdog: clearTimeout(exitTimeout).
WatchdogOnCompleted == "cleared"

\* pool.end() settles (its rejection is caught and logged inside finally):
\* embedAndStore rethrows the exception in flight, or returns true and the launcher
\* logs success, clears the watchdog and arms the 500 ms exit timer.
PoolEndSettles ==
    /\ ipc = "pool.end" /\ ~exited
    /\ pool' = IF pool = "ending" THEN "ended" ELSE pool
    /\ IF pendingError
       THEN /\ MainCatch
            /\ UNCHANGED exitTimer
       ELSE /\ Enter("Completed")
            /\ exitTimeout' = WatchdogOnCompleted
            /\ exitTimer' = "armed"
            /\ ipc' = "completed"
            /\ UNCHANGED <<exited, exitCode, exitBy>>
    /\ UNCHANGED <<botVars, funVars, cfg, iUnhandled, stored, poolAcquired,
                   poolEndCalls, failedStep, pendingError, steps, nDocs>>

\* The 500 ms timer fires: process.exit(0).
ExitTimerFires ==
    /\ exitTimer = "armed" /\ ~exited
    /\ exitTimer' = "fired"
    /\ ProcessExit(SuccessExitCode, "exitTimer")
    /\ UNCHANGED <<botVars, funVars, cfg, iUnhandled, stored, stage, pool,
                   poolAcquired, poolEndCalls, exitTimeout, failedStep, pendingError,
                   trace, steps, nDocs>>

\* The 30 s watchdog fires while the launcher is suspended: process.exit(0).
WatchdogFires ==
    /\ exitTimeout = "armed" /\ ~exited
    /\ ipc # "register"
    /\ exitTimeout' = "fired"
    /\ ProcessExit(WatchdogExitCode, "watchdog")
    /\ UNCHANGED <<botVars, funVars, cfg, iUnhandled, stored, stage, pool,
                   poolAcquired, poolEndCalls, exitTimer, failedStep, pendingError,
                   trace, steps, nDocs>>

\* SIGINT before the handler is registered, which the module does after the
\* launcher has armed the watchdog and called fetchText: the signal's default
\* action kills the process, nothing is logged.
IngestSigintDefault ==
    /\ ipc \in {"start", "register"} /\ ~exited
    /\ ProcessExit(KilledBySigint, "signal")
    /\ UNCHANGED <<botVars, funVars, cfg, iUnhandled, stored, stage, pool,
                   poolAcquired, poolEndCalls, exitTimeout, exitTimer, failedStep,
                   pendingError, trace, steps, nDocs>>

\* SIGINT arrives while the launcher is suspended: log, process.exit(0).
IngestSigint ==
    /\ ipc \notin {"start", "register", "off"} /\ ~exited
    /\ ProcessExit(SigintExitCode, "SIGINT")
    /\ UNCHANGED <<botVars, funVars, cfg, iUnhandled, stored, stage, pool,
                   poolAcquired, poolEndCalls, exitTimeout, exitTimer, failedStep,
                   pendingError, trace, steps, nDocs>>

\* A handler that only logs the rejection (the service's, not this program's).
IngestOnUnhandledRejectionLogs ==
    UNCHANGED <<exited, exitCode, exitBy, ipc>>

\* process.on("unhandledRejection"): log, process.exit(1).
IngestOnUnhandledRejection ==
    ProcessExit(RejectionExitCode, "unhandledRejection")

\* A promise rejects with no handler attached while the launcher is suspended
\* (every rejection of the launcher's own awaits is caught by its try blocks).
IngestUnhandledRejection ==
    /\ ipc \notin {"start", "register", "off"} /\ ~exited
    /\ iUnhandled = 0
    /\ iUnhandled' = iUnhandled + 1
    /\ IngestOnUnhandledRejection
    /\ UNCHANGED <<botVars, funVars, cfg, stored, stage, pool, poolAcquired,
                   poolEndCalls, exitTimeout, exitTimer, failedStep, pendingError,
                   trace, steps, nDocs>>

IngestNext ==
    \/ MainStart
    \/ IngestRegister
    \/ FetchOk
    \/ FetchFail
    \/ \E n \in 0..MaxDocs : SplitOk(n)
    \/ SplitFail
    \/ Select1Ok
    \/ Select1Fail
    \/ InitializeOk
    \/ InitializeFail
    \/ AddDocumentsOk
    \/ \E k \in 0..MaxDocs : AddDocumentsFail(k)
    \/ PoolEndSettles
    \/ ExitTimerFires
    \/ WatchdogFires
    \/ IngestSigintDefault
    \/ IngestSigint
    \/ IngestUnhandledRejection

\* ------------------------------------------------------------ query service

\* msg.text of an inbound message: absent, or a string (a sequence of characters).
NoText == [has |-> FALSE, s |-> <<>>]
Str(s) == [has |-> TRUE, s |-> s]
StartCmd == <<"/", "s", "t", "a", "r", "t">>
SampleTexts ==
    { NoText, Str(<<>>), Str(<<" ">>), Str(StartCmd), Str(<<" ">> \o StartCmd),
      Str(<<"/", "x">>), Str(<<"q">>), Str(<<" ", "q", " ">>) }

\* The white space String.prototype.trim removes, of the characters used here.
IsSpace(c) == c \in {" ", "\n"}

RECURSIVE TrimStart(_)
TrimStart(s) == IF s # <<>> /\ IsSpace(Head(s)) THEN TrimStart(Tail(s)) ELSE s
RECURSIVE TrimEnd(_)
TrimEnd(s) ==
    IF s # <<>> /\ IsSpace(s[Len(s)]) THEN TrimEnd(SubSeq(s, 1, Len(s) - 1)) ELSE s

\* const text = msg.text?.trim();
Trim(m) == IF m.has THEN Str(TrimEnd(TrimStart(m.s))) ELSE NoText

\* !text || text.startsWith("/")
\* A test that lets commands through as questions (not the program's).
NotAQuestionBlankOnly(t) == (~t.has) \/ t.s = <<>>

\* !text || text.startsWith("/")
NotAQuestion(t) == (~t.has) \/ t.s = <<>> \/ Head(t.s) = "/"

\* The values response.content may hold: undefined, null, a string, or an array
\* of content parts.
Value(t, s) == [type |-> t, s |-> s]
NoAnswer == Value("undefined", <<>>)
Answers ==
    { NoAnswer, Value("null", <<>>), Value("object", <<>>),
      Value("string", <<>>), Value("string", <<" ">>),
      Value("string", <<"a">>), Value("string", <<" ", "a">>) }

\* !answer
Falsy(a) == a.type \in {"undefined", "null"} \/ (a.type = "string" /\ a.s = <<>>)

\* A validation that forgets the blank answers (not the program's).
AnswerRejectedUntrimmed(a) == Falsy(a) \/ a.type # "string"

\* !answer || typeof answer !== "string" || answer.trim() === ""
AnswerRejected(a) ==
    Falsy(a) \/ a.type # "string" \/ TrimEnd(TrimStart(a.s)) = <<>>

Units == 1..MaxMsgs

\* The service's state before its module is loaded.
BotIdle ==
    /\ bExitCode = 0
    /\ bpool = "open"
    /\ bPoolEndCalls = 0
    /\ sigints = 0
    /\ unhandled = 0
    /\ upc = [u \in Units |-> "new"]
    /\ text = [u \in Units |-> NoText]
    /\ sent = [u \in Units |-> <<>>]
    /\ delivered = [u \in Units |-> <<>>]
    /\ docs = [u \in Units |-> -1]
    /\ llmCalls = [u \in Units |-> 0]
    /\ thrown = [u \in Units |-> <<>>]
    /\ answer = [u \in Units |-> NoAnswer]
    /\ vectorStore = "undefined"
    /\ overlapped = FALSE

\* The service process is started.
BotInit == bpc = "load" /\ BotIdle

\* The service process is not run.
BotOff == bpc = "off" /\ BotIdle

\* Module initialisation up to the top-level await: the pool and the embeddings
\* are constructed and PGVectorStore.initialize is called. The constructor of
\* OpenAIEmbeddings throws without an API key, which ends the process.
BotLoad ==
    /\ bpc = "load"
    /\ IF EmbeddingsCanConstruct
       THEN /\ bpc' = "initialize"
            /\ UNCHANGED bExitCode
       ELSE /\ bpc' = "exited"
            /\ bExitCode' = BotCrashExitCode
    /\ UNCHANGED <<ingestVars, funVars, cfg, stored, answer, vectorStore, bpool,
                   bPoolEndCalls, sigints, unhandled, upc, text, sent, delivered, docs,
                   llmCalls, thrown, overlapped>>

\* PGVectorStore.initialize resolves: vectorStore is bound and the rest of the
\* module starts to run.
BotInitializeOk ==
    /\ bpc = "initialize"
    /\ bpc' = "register"
    /\ vectorStore' = "ready"
    /\ UNCHANGED <<ingestVars, funVars, cfg, stored, answer, bExitCode, bpool,
                   bPoolEndCalls, sigints, unhandled, upc, text, sent, delivered, docs,
                   llmCalls, thrown, overlapped>>

\* The rest of the module: the model and the bot are constructed, polling
\* starts and the message, SIGINT and unhandledRejection handlers are
\* registered.
BotRegister ==
    /\ bpc = "register"
    /\ bpc' = "running"
    /\ UNCHANGED <<ingestVars, funVars, cfg, stored, answer, vectorStore, bExitCode,
                   bpool, bPoolEndCalls, sigints, unhandled, upc, text, sent,
                   delivered, docs, llmCalls, thrown, overlapped>>

\* A startup failure caught and logged, leaving the service polling (not the
\* program's).
BotInitializeFailSwallowed ==
    /\ bpc = "initialize"
    /\ bpc' = "running"
    /\ UNCHANGED <<ingestVars, funVars, cfg, stored, answer, vectorStore, bExitCode,
                   bpool, bPoolEndCalls, sigints, unhandled, upc, text, sent,
                   delivered, docs, llmCalls, thrown, overlapped>>

\* PGVectorStore.initialize rejects: the top-level await throws and node exits.
BotInitializeFail ==
    /\ bpc = "initialize"
    /\ bpc' = "exited"
    /\ bExitCode' = BotCrashExitCode
    /\ UNCHANGED <<ingestVars, funVars, cfg, stored, answer, vectorStore, bpool,
                   bPoolEndCalls, sigints, unhandled, upc, text, sent, delivered, docs,
                   llmCalls, thrown, overlapped>>

\* The ingestion run's handler in the service (not the program's): process.exit(1).
BotOnUnhandledRejectionExits ==
    /\ unhandled' = unhandled + 1
    /\ bpc' = "exited"
    /\ bExitCode' = 1

\* The service's unhandledRejection handler: log, and keep running.
BotOnUnhandledRejection ==
    /\ unhandled' = unhandled + 1
    /\ UNCHANGED <<bpc, bExitCode>>

\* bot.sendMessage(chatId, kind) is called by the handler of message u.
Send(u, kind) ==
    /\ sent' = [sent EXCEPT ![u] = Append(@, kind)]
    /\ upc' = [upc EXCEPT ![u] = "send:" \o kind]

\* The messages whose handler is suspended at an await.
InFlight == {v \in Units : upc[v] \notin {"new", "returned", "rejected"}}

\* A step of the handler of message u throws.
Throw(u, step) ==
    /\ thrown' = [thrown EXCEPT ![u] = Append(@, step)]
    /\ overlapped' = (overlapped \/ InFlight \ {u} # {})

\* A catch block that logs and sends nothing (not the program's).
CatchSilent(u, step) ==
    /\ Throw(u, step)
    /\ upc' = [upc EXCEPT ![u] = "returned"]
    /\ UNCHANGED sent

\* The handler's catch block: log, then send the apology.
Catch(u, step) ==
    /\ Throw(u, step)
    /\ Send(u, "apology")

\* An exception leaves the handler: its promise rejects with nobody awaiting it.
Escape(u, step) ==
    /\ Throw(u, step)
    /\ upc' = [upc EXCEPT ![u] = "rejected"]
    /\ BotOnUnhandledRejection

\* Polling delivers message u with msg.text = m: the handler runs to its first await.
Receive(u, m) ==
    /\ bpc = "running"
    /\ "TELEGRAM_TOKEN" \in cfg
    /\ upc[u] = "new"
    /\ \A v \in Units : v < u => upc[v] # "new"
    /\ text' = [text EXCEPT ![u] = Trim(m)]
    /\ IF NotAQuestion(Trim(m))
       THEN IF Trim(m) = Str(StartCmd)
            THEN Send(u, "greeting")
            ELSE /\ upc' = [upc EXCEPT ![u] = "returned"]
                 /\ UNCHANGED sent
       ELSE Send(u, "waiting")
    /\ UNCHANGED <<ingestVars, funVars, cfg, stored, answer, vectorStore, bpc,
                   bExitCode, bpool, bPoolEndCalls, sigints, unhandled, delivered,
                   docs, llmCalls, thrown, overlapped>>

\* A handler without the short circuit (not the program's).
NoShortCircuit(n) == FALSE

\* What follows the retrieval of n fragments: the short circuit on docs.length === 0.
ShortCircuit(n) == n = 0

\* An awaited bot.sendMessage resolves.
SendOk(u) ==
    /\ bpc = "running"
    /\ upc[u] \in {"send:greeting", "send:waiting", "send:noinfo", "send:answer",
                   "send:apology"}
    /\ delivered' = [delivered EXCEPT ![u] = Append(@, sent[u][Len(sent[u])])]
    /\ upc' = [upc EXCEPT ![u] =
                 IF upc[u] = "send:waiting" THEN "similaritySearch" ELSE "returned"]
    /\ answer' = [answer EXCEPT ![u] = NoAnswer]
    /\ UNCHANGED <<ingestVars, funVars, cfg, stored, vectorStore, bpc, bExitCode,
                   bpool, bPoolEndCalls, sigints, unhandled, text, sent, docs,
                   llmCalls, thrown, overlapped>>

\* An awaited bot.sendMessage rejects: inside the try block the catch block takes
\* it; the greeting, the waiting message and the apology are sent outside of it.
SendFail(u) ==
    /\ bpc = "running"
    /\ upc[u] \in {"send:greeting", "send:waiting", "send:noinfo", "send:answer",
                   "send:apology"}
    /\ IF upc[u] \in {"send:noinfo", "send:answer"}
       THEN /\ Catch(u, upc[u])
            /\ UNCHANGED <<bpc, bExitCode, unhandled>>
       ELSE /\ Escape(u, upc[u])
            /\ UNCHANGED sent
    /\ answer' = [answer EXCEPT ![u] = NoAnswer]
    /\ UNCHANGED <<ingestVars, funVars, cfg, stored, vectorStore, bpool, bPoolEndCalls,
                   sigints, text, delivered, docs, llmCalls>>

\* The rows a search with LIMIT k returns from a table of n rows.
SearchCount(n, k) == IF n < k THEN n ELSE k

\* A search that also stores the question asked (not the program's).
RowsAfterSearchLogged == stored + 1

\* The rows of the table once the search has run: it only reads.
RowsAfterSearch == stored

\* vectorStore.similaritySearch(text, 4) resolves: the no-information reply on an
\* empty result, else the prompt is built and llm.invoke(prompt) is called.
SearchOk(u) ==
    /\ bpc = "running"
    /\ upc[u] = "similaritySearch"
    /\ docs' = [docs EXCEPT ![u] = SearchCount(stored, TopK)]
    /\ IF ShortCircuit(SearchCount(stored, TopK))
       THEN /\ Send(u, "noinfo")
            /\ UNCHANGED llmCalls
       ELSE /\ llmCalls' = [llmCalls EXCEPT ![u] = @ + 1]
            /\ upc' = [upc EXCEPT ![u] = "llm.invoke"]
            /\ UNCHANGED sent
    /\ stored' = RowsAfterSearch
    /\ UNCHANGED <<ingestVars, funVars, cfg, answer, vectorStore, bpc, bExitCode,
                   bpool, bPoolEndCalls, sigints, unhandled, text, delivered, thrown,
                   overlapped>>

\* vectorStore.similaritySearch rejects (the embedding call or the query failed).
SearchFail(u) ==
    /\ bpc = "running"
    /\ upc[u] = "similaritySearch"
    /\ Catch(u, "similaritySearch")
    /\ UNCHANGED <<ingestVars, funVars, cfg, stored, answer, vectorStore, bpc,
                   bExitCode, bpool, bPoolEndCalls, sigints, unhandled, text,
                   delivered, docs, llmCalls>>

\* llm.invoke resolves with response.content = a: the answer is validated and
\* sent, or the validation throws.
LlmOk(u, a) ==
    /\ bpc = "running"
    /\ upc[u] = "llm.invoke"
    /\ IF AnswerRejected(a)
       THEN /\ Catch(u, "validate")
            /\ UNCHANGED answer
       ELSE /\ Send(u, "answer")
            /\ answer' = [answer EXCEPT ![u] = a]
            /\ UNCHANGED <<thrown, overlapped>>
    /\ UNCHANGED <<ingestVars, funVars, cfg, stored, vectorStore, bpc, bExitCode,
                   bpool, bPoolEndCalls, sigints, unhandled, text, delivered, docs,
                   llmCalls>>

\* llm.invoke rejects.
LlmFail(u) ==
    /\ bpc = "running"
    /\ upc[u] = "llm.invoke"
    /\ Catch(u, "llm.invoke")
    /\ UNCHANGED <<ingestVars, funVars, cfg, stored, answer, vectorStore, bpc,
                   bExitCode, bpool, bPoolEndCalls, sigints, unhandled, text,
                   delivered, docs, llmCalls>>

\* SIGINT before the handler is registered, which the module does last, after
\* the top-level await of PGVectorStore.initialize: the signal's default action
\* kills the process. pool.end() is not called and no exit status is chosen.
BotSigintDefault ==
    /\ bpc \in {"load", "initialize", "register"}
    /\ sigints < MaxSigints
    /\ sigints' = sigints + 1
    /\ bpc' = "exited"
    /\ bExitCode' = KilledBySigint
    /\ UNCHANGED <<ingestVars, funVars, cfg, stored, answer, vectorStore, bpool,
                   bPoolEndCalls, unhandled, upc, text, sent, delivered, docs,
                   llmCalls, thrown, overlapped>>

\* SIGINT once the handler is registered: it logs and calls pool.end(). The
\* first call starts closing the pool; pg rejects a second one, and that
\* handler's promise rejects unhandled.
BotSigint ==
    /\ bpc = "running"
    /\ sigints < MaxSigints
    /\ sigints' = sigints + 1
    /\ bPoolEndCalls' = bPoolEndCalls + 1
    /\ IF bpool = "open"
       THEN /\ bpool' = "ending"
            /\ UNCHANGED <<bpc, bExitCode, unhandled>>
       ELSE /\ BotOnUnhandledRejection
            /\ UNCHANGED bpool
    /\ UNCHANGED <<ingestVars, funVars, cfg, stored, answer, vectorStore, upc, text,
                   sent, delivered, docs, llmCalls, thrown, overlapped>>

\* The awaited pool.end() resolves: log, process.exit(0).
BotPoolEnded ==
    /\ bpc = "running"
    /\ bpool = "ending"
    /\ bpool' = "ended"
    /\ bpc' = "exited"
    /\ bExitCode' = BotSigintExitCode
    /\ UNCHANGED <<ingestVars, funVars, cfg, stored, answer, vectorStore,
                   bPoolEndCalls, sigints, unhandled, upc, text, sent, delivered, docs,
                   llmCalls, thrown, overlapped>>

BotNext ==
    \/ BotLoad
    \/ BotInitializeOk
    \/ BotInitializeFail
    \/ BotRegister
    \/ \E u \in Units, m \in SampleTexts : Receive(u, m)
    \/ \E u \in Units : SendOk(u)
    \/ \E u \in Units : SendFail(u)
    \/ \E u \in Units : SearchOk(u)
    \/ \E u \in Units : SearchFail(u)
    \/ \E u \in Units, a \in Answers : LlmOk(u, a)
    \/ \E u \in Units : LlmFail(u)
    \/ BotSigintDefault
    \/ BotSigint
    \/ BotPoolEnded

\* ------------------------------------------------------------- retrieval
\* No batch built, nothing written, no identifier generated.
StoreIdle ==
    /\ batch = <<>>
    /\ records = <<>>
    /\ runs = 0
    /\ uuids = 0

\* Neither a retrieval nor a splitting is run.
FunIdle ==
    /\ chunkEnv = [size |-> Unset, overlap |-> Unset]
    /\ table = <<>>
    /\ question = <<>>
    /\ rpc = "off"
    /\ matchCount = 0
    /\ found = <<>>
    /\ prompt = <<>>
    /\ rawText = <<>>
    /\ cpc = "off"
    /\ fragments = <<>>
    /\ StoreIdle

Min(a, b) == IF a <= b THEN a ELSE b

\* sub occurs in s at position p.
OccursAt(sub, s, p) ==
    /\ p >= 1
    /\ p + Len(sub) - 1 <= Len(s)
    /\ SubSeq(s, p, p + Len(sub) - 1) = sub

\* Template literal conversion of a non-negative integer.
Digit(n) == <<"0", "1", "2", "3", "4", "5", "6", "7", "8", "9">>[n + 1]
RECURSIVE NumToString(_)
NumToString(n) == IF n < 10 THEN <<Digit(n)>> ELSE NumToString(n \div 10) \o <<Digit(n % 10)>>

\* Array.prototype.join
RECURSIVE Join(_, _)
Join(parts, sep) ==
    IF parts = <<>> THEN <<>>
    ELSE IF Len(parts) = 1 THEN parts[1]
    ELSE parts[1] \o sep \o Join(Tail(parts), sep)

\* docs.embedding <=> query_embedding, the cosine distance of a row to the
\* query, in whole units: it ranges from 0 to 2.
Distances == 0..2

\* The content column of row i.
Content(i) == <<"f", Digit(i)>>

\* Row orders with no sorting applied (not the function's).
RECURSIVE Unordered(_, _)
Unordered(t, S) ==
    IF S = {} THEN {<<>>}
    ELSE UNION { { <<m>> \o q : q \in Unordered(t, S \ {m}) } : m \in S }

\* ORDER BY docs.embedding <=> query_embedding: the orders of the rows S of t
\* by ascending distance; rows at equal distance come in any order.
RECURSIVE OrderBy(_, _)
OrderBy(t, S) ==
    IF S = {} THEN {<<>>}
    ELSE UNION { { <<m>> \o q : q \in OrderBy(t, S \ {m}) } :
                 m \in {r \in S : \A o \in S : t[r] <= t[o]} }

\* LIMIT match_count
Limit(q, k) == SubSeq(q, 1, Min(k, Len(q)))

\* SELECT docs.id, docs.content, 1 - (docs.embedding <=> query_embedding)
Selected(t, i) == [id |-> i, content |-> Content(i), similarity |-> 1 - t[i]]

\* match_documents_lc(query_embedding, k) with the default filter '{}', which
\* every row's metadata contains.
MatchDocuments(k) ==
    /\ rpc = "search"
    /\ \E q \in OrderBy(table, DOMAIN table) :
           found' = [i \in 1..Len(Limit(q, k)) |-> Selected(table, Limit(q, k)[i])]
    /\ matchCount' = k
    /\ rpc' = "build"
    /\ UNCHANGED <<cfg, stored, ingestVars, botVars, chunkEnv, table, question, prompt,
                   rawText, cpc, fragments,
                   storeVars>>

\* docs.length === 0: the handler returns without building a prompt.
NoDocuments ==
    /\ rpc = "build"
    /\ Len(found) = 0
    /\ rpc' = "done"
    /\ UNCHANGED <<cfg, stored, ingestVars, botVars, chunkEnv, table, question,
                   matchCount, found, prompt, rawText, cpc, fragments,
                   storeVars>>

\* A fragment tagged from 0 (not the program's).
NumberedFromZero(d, i) == <<"(">> \o NumToString(i) \o <<")", " ">> \o d.content

\* `(${i + 1}) ${d.pageContent}`, i the index from 0
Numbered(d, i) == <<"(">> \o NumToString(i + 1) \o <<")", " ">> \o d.content

\* docs.map((d, i) => ...).join("\n")
Context(ds) == Join([j \in 1..Len(ds) |-> Numbered(ds[j], j - 1)], <<"\n">>)

\* The fixed parts of the prompt template.
Instruction == <<"Responde la siguiente pregunta usando SÓLO la información proporcionada.">>
QuestionLabel == <<"P", "r", "e", "g", "u", "n", "t", "a", ":", " ">>
AnswerCue == <<"Respuesta en español:">>

\* The prompt template literal.
PromptOf(t, ds) ==
    Instruction \o <<"\n", "\n">> \o Context(ds) \o <<"\n", "\n">>
        \o QuestionLabel \o t \o <<"\n">> \o AnswerCue

\* The context and the prompt are built from the documents found.
BuildPrompt ==
    /\ rpc = "build"
    /\ Len(found) # 0
    /\ prompt' = PromptOf(question, found)
    /\ rpc' = "done"
    /\ UNCHANGED <<cfg, stored, ingestVars, botVars, chunkEnv, table, question,
                   matchCount, found, rawText, cpc, fragments,
                   storeVars>>

RetrievalNext ==
    \/ \E k \in 0..TopK : MatchDocuments(k)
    \/ NoDocuments
    \/ BuildPrompt

\* ------------------------------------------------------------- splitting
\* The splitter's separators, tried in this order.
Separators == << <<"\n", "\n">>, <<"\n">>, <<" ">>, <<>> >>

\* text.includes(sep)
Includes(txt, sep) == \E p \in 1..Len(txt) : OccursAt(sep, txt, p)

\* The pieces of txt from position p on, cut before each position of cuts.
RECURSIVE PiecesFrom(_, _, _)
PiecesFrom(txt, cuts, p) ==
    IF p > Len(txt) THEN <<>>
    ELSE LET later == {c \in cuts : c > p}
             nxt == IF later = {} THEN Len(txt) + 1
                    ELSE CHOOSE c \in later : \A o \in later : c <= o
         IN  <<SubSeq(txt, p, nxt - 1)>> \o PiecesFrom(txt, cuts, nxt)

\* splitOnSeparator with keepSeparator: text.split(/(?=sep)/), each piece but
\* the first starting with the separator; text.split("") for the empty one.
SplitOnSeparator(txt, sep) ==
    PiecesFrom(txt,
               IF sep = <<>> THEN 2..Len(txt)
               ELSE {p \in 2..Len(txt) : OccursAt(sep, txt, p)},
               1)

\* docs.join("")
RECURSIVE Concat(_)
Concat(parts) == IF parts = <<>> THEN <<>> ELSE Head(parts) \o Concat(Tail(parts))

\* joinDocs: the pieces joined and trimmed; null (no chunk) when that is empty.
JoinDocs(cur) ==
    LET t == TrimEnd(TrimStart(Concat(cur)))
    IN  IF t = <<>> THEN <<>> ELSE <<t>>

\* mergeSplits, the loop that drops pieces from the front of currentDoc while
\* it holds more than the overlap or has no room for the next piece.
RECURSIVE Shifted(_, _, _, _, _)
Shifted(cur, total, len, size, overlap) ==
    IF cur # <<>> /\ (total > overlap \/ (total + len > size /\ total > 0))
    THEN Shifted(Tail(cur), total - Len(Head(cur)), len, size, overlap)
    ELSE [cur |-> cur, total |-> total]

\* mergeSplits(splits, ""), from piece i on, with the chunks made so far.
RECURSIVE MergeFrom(_, _, _, _, _, _, _)
MergeFrom(splits, i, made, cur, total, size, overlap) ==
    IF i > Len(splits) THEN made \o JoinDocs(cur)
    ELSE LET d == splits[i]
             full == total + Len(d) > size /\ cur # <<>>
             kept == IF full THEN Shifted(cur, total, Len(d), size, overlap)
                     ELSE [cur |-> cur, total |-> total]
         IN  MergeFrom(splits, i + 1,
                       IF full THEN made \o JoinDocs(cur) ELSE made,
                       Append(kept.cur, d), kept.total + Len(d), size, overlap)

MergeSplits(splits, size, overlap) ==
    IF splits = <<>> THEN <<>> ELSE MergeFrom(splits, 1, <<>>, <<>>, 0, size, overlap)

\* The index of the separator _splitText uses: the first one that is empty or
\* occurs in the text.
RECURSIVE SeparatorIndex(_, _, _)
SeparatorIndex(txt, seps, i) ==
    IF i >= Len(seps) \/ seps[i] = <<>> \/ Includes(txt, seps[i]) THEN i
    ELSE SeparatorIndex(txt, seps, i + 1)

\* _splitText(text, separators): pieces shorter than chunkSize are merged,
\* a longer one is split with the separators that remain, or kept as it is when
\* none remains.
RECURSIVE SplitText(_, _, _, _)
RECURSIVE SplitPieces(_, _, _, _, _, _, _)
SplitPieces(splits, j, good, rest, more, size, overlap) ==
    IF j > Len(splits) THEN MergeSplits(good, size, overlap)
    ELSE IF Len(splits[j]) < size
    THEN SplitPieces(splits, j + 1, Append(good, splits[j]), rest, more, size, overlap)
    ELSE MergeSplits(good, size, overlap)
         \o (IF more THEN SplitText(splits[j], rest, size, overlap) ELSE <<splits[j]>>)
         \o SplitPieces(splits, j + 1, <<>>, rest, more, size, overlap)

SplitText(txt, seps, size, overlap) ==
    LET i == SeparatorIndex(txt, seps, 1)
        more == seps[i] # <<>> /\ Includes(txt, seps[i])
    IN  SplitPieces(SplitOnSeparator(txt, seps[i]), 1, <<>>,
                    SubSeq(seps, i + 1, Len(seps)), more, size, overlap)

\* splitIntoDocuments(rawText): the splitter is constructed from the
\* environment and createDocuments([rawText]) makes one document per chunk.
SplitIntoDocuments ==
    /\ cpc = "split"
    /\ IF SplitterRejects(ChunkSize, ChunkOverlap)
       THEN /\ cpc' = "threw"
            /\ UNCHANGED fragments
       ELSE /\ cpc' = "done"
            /\ fragments' = SplitText(rawText, Separators, ChunkSize, ChunkOverlap)
    /\ UNCHANGED <<cfg, stored, ingestVars, botVars, chunkEnv, table, question, rpc,
                   matchCount, found, prompt, rawText, storeVars>>

\* The value of metadata.source.
SourceTag == "truora-blog"

\* uuid(): the k-th identifier generated; a v4 identifier is taken never to
\* repeat.
Uuid(k) == k

\* A batch whose documents share one identifier, generated before the map (not
\* the program's).
BatchOneUuid(frags, n) ==
    [i \in 1..Len(frags) |->
        [pageContent |-> frags[i],
         metadata |-> [source |-> SourceTag, uuid |-> Uuid(n + 1)]]]

\* docs.map((d) => ({pageContent: d.pageContent,
\*                   metadata: {source: "truora-blog", uuid: uuid()}})),
\* n identifiers having been generated before.
Batch(frags, n) ==
    [i \in 1..Len(frags) |->
        [pageContent |-> frags[i],
         metadata |-> [source |-> SourceTag, uuid |-> Uuid(n + i)]]]

\* embedAndStore(docs) up to the call of addDocuments: the batch is built.
MapDocuments ==
    /\ cpc = "done"
    /\ batch' = Batch(fragments, uuids)
    /\ uuids' = uuids + Len(fragments)
    /\ cpc' = "addDocuments"
    /\ UNCHANGED <<cfg, stored, ingestVars, botVars, chunkEnv, table, question, rpc,
                   matchCount, found, prompt, rawText, fragments, records, runs>>

\* The row a document becomes: pageContent is the content column.
RowOf(d) == [content |-> d.pageContent, metadata |-> d.metadata]

\* A store that skips a document whose content it already holds (not the
\* program's).
Upserted(rs, b) ==
    rs \o SelectSeq([i \in 1..Len(b) |-> RowOf(b[i])],
                    LAMBDA r : \A j \in 1..Len(rs) : rs[j].content # r.content)

\* addDocuments: one row is inserted per document, after the rows the table
\* holds.
Inserted(rs, b) == rs \o [i \in 1..Len(b) |-> RowOf(b[i])]

\* vectorStore.addDocuments(batch) resolves and the run completes.
AddDocuments ==
    /\ cpc = "addDocuments"
    /\ records' = Inserted(records, batch)
    /\ runs' = runs + 1
    /\ cpc' = "completed"
    /\ UNCHANGED <<cfg, stored, ingestVars, botVars, chunkEnv, table, question, rpc,
                   matchCount, found, prompt, rawText, fragments, batch, uuids>>

\* The program is run again on the same source with the same environment.
RunAgain ==
    /\ cpc = "completed"
    /\ runs < MaxRuns
    /\ cpc' = "split"
    /\ fragments' = <<>>
    /\ batch' = <<>>
    /\ UNCHANGED <<cfg, stored, ingestVars, botVars, chunkEnv, table, question, rpc,
                   matchCount, found, prompt, rawText, records, runs, uuids>>

ChunkerNext ==
    \/ SplitIntoDocuments
    \/ MapDocuments
    \/ AddDocuments
    \/ RunAgain

vars == <<cfg, stored, ingestVars, botVars, funVars>>

\* The environments of a process: the options it does not read are held set.
Envs(unread) == {c \in SUBSET Options : unread \subseteq c}

\* The ingestion process alone, from any environment and any table.
InitIngest ==
    /\ cfg \in Envs({"TELEGRAM_TOKEN"})
    /\ stored \in 0..MaxStored
    /\ IngestInit
    /\ BotOff
    /\ chunkEnv \in [size : EnvValues, overlap : EnvValues]
    /\ table = <<>> /\ question = <<>> /\ rpc = "off"
    /\ matchCount = 0 /\ found = <<>> /\ prompt = <<>>
    /\ rawText = <<>> /\ cpc = "off" /\ fragments = <<>>
    /\ StoreIdle

SpecIngest == InitIngest /\ [][IngestNext]_vars

\* The query service alone, from any environment and any table.
InitBot ==
    /\ cfg \in Envs({"URL_REMOTE_TEXT"})
    /\ stored \in 0..MaxStored
    /\ IngestOff
    /\ BotInit
    /\ FunIdle

SpecBot == InitBot /\ [][BotNext]_vars

\* The characters of the texts split.
Chars == {"a", " ", "\n"}
Texts == UNION {[1..n -> Chars] : n \in 0..MaxTextLen}

\* A splitting of any text under any setting of the two options.
InitChunker ==
    /\ cfg = Options
    /\ stored = 0
    /\ IngestOff
    /\ BotOff
    /\ chunkEnv \in [size : EnvValues, overlap : EnvValues]
    /\ rawText \in Texts
    /\ cpc = "split"
    /\ fragments = <<>>
    /\ StoreIdle
    /\ table = <<>> /\ question = <<>> /\ rpc = "off"
    /\ matchCount = 0 /\ found = <<>> /\ prompt = <<>>

SpecChunker == InitChunker /\ [][ChunkerNext]_vars

\* Either program, run on its own.
Init == InitIngest \/ InitBot

Next ==
    \/ IngestNext
    \/ BotNext

Spec == Init /\ [][Next]_vars

\* The questions a retrieval is run for.
Questions == {<<"q">>, <<"q", " ", "(", "1", ")">>}

\* A retrieval over any table of up to MaxRows rows at any distances.
InitRetrieval ==
    /\ cfg = Options
    /\ IngestOff
    /\ BotOff
    /\ table \in UNION {[1..n -> Distances] : n \in 0..MaxRows}
    /\ stored = Len(table)
    /\ question \in Questions
    /\ rpc = "search"
    /\ chunkEnv = [size |-> Unset, overlap |-> Unset]
    /\ matchCount = 0 /\ found = <<>> /\ prompt = <<>>
    /\ rawText = <<>> /\ cpc = "off" /\ fragments = <<>>
    /\ StoreIdle

SpecRetrieval == InitRetrieval /\ [][RetrievalNext]_vars

\* ------------------------------------------------------------------ claims

\* The replies that end the handling of a question.
FinalKinds == {"answer", "noinfo", "apology"}
IsFinal(k) == k \in FinalKinds
Finals(u) == SelectSeq(sent[u], IsFinal)
Elems(q) == {q[i] : i \in 1..Len(q)}

\* C1 (as stated): a question whose retrieval returns zero fragments never
\* invokes llm.invoke and the reply sent to the chat is the no-information
\* message, and nothing else.
C1_EmptyRetrievalRepliesNoInfoOnly ==
    \A u \in Units :
        docs[u] = 0 => (llmCalls[u] = 0 /\ Finals(u) = <<"noinfo">>)

\* C1 (amended): a question whose retrieval returns zero fragments never invokes
\* llm.invoke and never gets an answer; the first reply sent after the retrieval
\* is the no-information message, and it is the only one unless its delivery
\* throws, in which case the catch block sends the apology after it.
C1_EmptyRetrievalShortCircuits ==
    \A u \in Units :
        docs[u] = 0 =>
            /\ llmCalls[u] = 0
            /\ "answer" \notin Elems(sent[u])
            /\ Finals(u) \in {<<"noinfo">>, <<"noinfo", "apology">>}
            /\ "apology" \in Elems(sent[u]) =>
                   (thrown[u][1] = "send:noinfo" /\ "noinfo" \notin Elems(delivered[u]))

\* An empty retrieval answered by the no-information message, delivered.
C1_Witness ==
    \E u \in Units :
        /\ docs[u] = 0
        /\ upc[u] = "returned"
        /\ delivered[u] = <<"waiting", "noinfo">>

\* C2: every exception of a step of handling a question is caught in the handler
\* and converted into the apology: no rejection leaves the handler, and no
\* exception ends the service.
C2_EveryExceptionCaught ==
    \A u \in Units :
        (~NotAQuestion(text[u]) /\ thrown[u] # <<>>) =>
            /\ upc[u] # "rejected"
            /\ "apology" \in Elems(sent[u])
            /\ sigints = 0 => bpc = "running"

\* The awaited calls of the storing stage.
StoreSteps == {"SELECT 1", "initialize", "addDocuments"}

\* C3: whichever stage fails, pool.end has been called exactly once when the
\* run has ended: never zero times and never twice.
C3_ReleasedExactlyOnce ==
    (exited /\ failedStep # "none") => poolEndCalls = 1

\* C4: on every exit path of the ingestion process the pool, if it was acquired,
\* has been released (pool.end called) before the process exits.
C4_ReleasedOnEveryExit ==
    exited => pool # "open"

\* C5: the ingestion process exits 0 when all stages succeeded and non-zero
\* whenever a stage failed.
C5_ExitStatus ==
    exited =>
        /\ (stage = "Completed" /\ failedStep = "none") => exitCode = 0
        /\ failedStep # "none" => exitCode # 0

\* C6: a watchdog expiry happens only while the pipeline is neither Completed nor
\* Failed, and it terminates the process with a non-zero status.
C6_WatchdogExitsNonZero ==
    exitBy = "watchdog" =>
        /\ stage \notin {"Completed", "Failed"}
        /\ exitCode # 0

\* C7: the watchdog never fires after the pipeline has reached Completed or
\* Failed, a pipeline one of whose steps has failed being Failed: it is
\* cleared in a completed run, and it has never ended a run that had completed
\* or in which a step had failed.
C7_WatchdogCancelled ==
    /\ stage = "Completed" => exitTimeout = "cleared"
    /\ exitBy = "watchdog" => (stage # "Completed" /\ failedStep = "none")

\* The transitions of the pipeline's state machine.
AllowedNext(s) ==
    CASE s = "Idle" -> {"Fetching"}
      [] s = "Fetching" -> {"Chunking", "Failed"}
      [] s = "Chunking" -> {"EmbeddingStoring", "Failed"}
      [] s = "EmbeddingStoring" -> {"Completed", "Failed"}
      [] OTHER -> {}

NoRepeat(q) == \A i, j \in 1..Len(q) : i # j => q[i] # q[j]

AllSteps == <<"fetchText", "splitIntoDocuments", "SELECT 1", "initialize", "addDocuments">>

\* The run moves only along Idle, Fetching, Chunking, EmbeddingStoring and
\* then Completed or Failed; no state is entered twice and no call is started
\* twice; the call that failed is the last one started; Failed is entered only
\* after a failure, and Completed only after every call succeeded.
ForwardOnly ==
    /\ trace[1] = "Idle" /\ trace[Len(trace)] = stage
    /\ \A i \in 1..(Len(trace) - 1) : trace[i + 1] \in AllowedNext(trace[i])
    /\ NoRepeat(trace)
    /\ NoRepeat(steps)
    /\ steps = SubSeq(AllSteps, 1, Len(steps))
    /\ failedStep # "none" => steps[Len(steps)] = failedStep
    /\ stage = "Failed" => failedStep # "none"
    /\ stage = "Completed" => (failedStep = "none" /\ steps = AllSteps)

\* The ways a run is ended from outside the pipeline: a signal, the watchdog,
\* a stray rejection.
Interruptions == {"signal", "SIGINT", "watchdog", "unhandledRejection"}

IngestRequired == {"URL_REMOTE_TEXT", "PG", "OPENAI_API_KEY"}
BotRequired == {"PG", "OPENAI_API_KEY", "TELEGRAM_TOKEN"}

\* C9: with a required option missing, the ingestion run starts no fetch, chunk,
\* embed or store call, and the query service accepts no message.
C9_FailFast ==
    /\ IngestRequired \ cfg # {} => steps = <<>>
    /\ BotRequired \ cfg # {} => \A u \in Units : upc[u] = "new"

\* What a handler owns.
UnitState(u) == <<upc[u], text[u], sent[u], delivered[u], docs[u], llmCalls[u], thrown[u]>>

\* C10: a step in which a step of one message's handling throws changes nothing
\* of any other message's handling nor of the shared pool and table, and leaves
\* the service running; the service ends only by SIGINT, with status 0, once a
\* message has been accepted.
C10_FailureIsolated ==
    /\ [][\A u \in Units :
            Len(thrown'[u]) > Len(thrown[u]) =>
                /\ \A v \in Units \ {u} : UnitState(v)' = UnitState(v)
                /\ bpc' = "running"
                /\ bpool' = bpool
                /\ stored' = stored]_vars
    /\ []((bpc = "exited" /\ \E u \in Units : upc[u] # "new") =>
              (sigints > 0 /\ bExitCode = 0))

\* A message in flight when another one's handling threw, later answered.
C10_Witness ==
    /\ overlapped
    /\ bpc = "running"
    /\ \E u, v \in Units :
        /\ u # v
        /\ upc[u] = "rejected"
        /\ upc[v] = "returned"
        /\ thrown[v] = <<>>
        /\ delivered[v] = <<"waiting", "answer">>

\* A handler that has ended, with no shutdown signal received.
Ended(u) == upc[u] \in {"returned", "rejected"} /\ sigints = 0

\* C11: with every external call returned or failed and no shutdown signal, a
\* question's handling ends with a final reply (answer, no-information or
\* apology) sent, and a non-question's handling ends with none sent.
C11_QuestionGetsFinalReply ==
    \A u \in Units :
        Ended(u) =>
            IF NotAQuestion(text[u])
            THEN Finals(u) = <<>>
            ELSE Finals(u) # <<>>

\* C12: once SIGINT has been received no step accepts an inbound question, so
\* no question handling (and no retrieval) starts after the signal.
C12_NoAcceptAfterSigint ==
    [][sigints > 0 =>
        \A u \in Units : upc[u] = "new" => upc'[u] # "send:waiting"]_vars

\* C13: the service exits with status 0 exactly on a clean shutdown, which is
\* the SIGINT handler having closed the pool after a shutdown signal; it exits
\* with a non-zero status when its startup fails, the only exit without a
\* signal; and it is never running, nor has it accepted a message, without an
\* initialised store.
C13_ServiceExitStatus ==
    /\ (bpc = "exited" /\ bpool = "ended") =>
           (sigints > 0 /\ bExitCode = BotSigintExitCode /\ vectorStore = "ready")
    /\ (bpc = "exited" /\ bExitCode = 0) => bpool = "ended"
    /\ (bpc = "exited" /\ sigints = 0) =>
           (bExitCode = BotCrashExitCode /\ vectorStore = "undefined")
    /\ vectorStore = "undefined" =>
           (bpc \in {"load", "initialize", "exited"} /\ \A u \in Units : upc[u] = "new")

\* PGVectorStore.initialize rejected with every option set: exit status 1.
C13_Witness ==
    /\ bpc = "exited"
    /\ sigints = 0
    /\ "OPENAI_API_KEY" \in cfg
    /\ bExitCode = BotCrashExitCode
    /\ vectorStore = "undefined"

\* A string with at least one character that is not white space.
NonBlankString(a) == a.type = "string" /\ \E i \in 1..Len(a.s) : a.s[i] # " "

\* C14: the generation result being sent as the answer is a string that is not
\* blank; a result that failed validation is never sent, and the apology is the
\* one final reply sent for it.
C14_OnlyValidAnswerSent ==
    \A u \in Units :
        /\ upc[u] = "send:answer" =>
               (NonBlankString(answer[u]) /\ sent[u][Len(sent[u])] = "answer")
        /\ "answer" \in Elems(sent[u]) => "validate" \notin Elems(thrown[u])
        /\ "validate" \in Elems(thrown[u]) => Finals(u) = <<"apology">>

\* A rejected generation result answered with the apology.
C14_Witness ==
    \E u \in Units :
        /\ thrown[u] = <<"validate">>
        /\ llmCalls[u] = 1
        /\ upc[u] = "returned"
        /\ delivered[u] = <<"waiting", "apology">>

\* The first position from `from` on at which sub occurs in s; 0 if none.
FirstAt(sub, s, from) ==
    LET P == {p \in from..Len(s) : OccursAt(sub, s, p)}
    IN  IF from = 0 \/ P = {} THEN 0 ELSE CHOOSE p \in P : \A o \in P : p <= o

\* Fragment number i of the ranking, tagged with its rank.
Tagged(i) == <<"(", Digit(i), ")", " ">> \o found[i].content

\* The position just after the fragments 1..n tagged with their ranks, found
\* one after the other in the prompt from position `from` on; 0 if they are
\* not there in that order.
RECURSIVE RankedEnd(_, _)
RankedEnd(i, from) ==
    IF from = 0 THEN 0
    ELSE IF i > Len(found) THEN from
    ELSE LET p == FirstAt(Tagged(i), prompt, from)
         IN  IF p = 0 THEN 0 ELSE RankedEnd(i + 1, p + Len(Tagged(i)))

PromptBuilt == rpc = "done" /\ Len(found) # 0

\* C15 as stated: the prompt holds the fragments in ranked order, each tagged
\* with its rank, and after them the instruction and the question.
C15_FragmentsThenInstruction ==
    PromptBuilt =>
        /\ RankedEnd(1, 1) # 0
        /\ FirstAt(Instruction, prompt, RankedEnd(1, 1)) # 0
        /\ FirstAt(question, prompt, RankedEnd(1, 1)) # 0

\* C15, amended: the prompt starts with the instruction; after it come the
\* fragments in ranked order, each tagged with its rank 1..n; after them comes
\* the question, labelled, and the answer cue ends the prompt. The content of
\* every fragment found is in the prompt.
C15_InstructionFragmentsQuestion ==
    PromptBuilt =>
        /\ OccursAt(Instruction, prompt, 1)
        /\ RankedEnd(1, 1 + Len(Instruction)) # 0
        /\ FirstAt(QuestionLabel \o question, prompt,
                   RankedEnd(1, 1 + Len(Instruction))) # 0
        /\ OccursAt(AnswerCue, prompt, Len(prompt) - Len(AnswerCue) + 1)
        /\ \A i \in DOMAIN found : FirstAt(found[i].content, prompt, 1) # 0

\* A prompt built from four fragments.
C15_Witness ==
    /\ PromptBuilt
    /\ Len(found) = TopK
    /\ prompt # <<>>
    /\ FirstAt(Tagged(TopK), prompt, 1) > FirstAt(Tagged(1), prompt, 1)

\* C16: a search with limit k returns at most k distinct rows of the table, in
\* non-increasing similarity order, which is ascending distance order, and no
\* row left out is strictly closer to the query than a row returned.
C16_RankedTopK ==
    rpc \in {"build", "done"} =>
        LET ids == {found[i].id : i \in DOMAIN found}
        IN  /\ Len(found) <= matchCount
            /\ ids \subseteq DOMAIN table
            /\ \A i, j \in DOMAIN found :
                   i < j => /\ found[i].id # found[j].id
                            /\ found[i].similarity >= found[j].similarity
                            /\ table[found[i].id] <= table[found[j].id]
            /\ \A o \in DOMAIN table \ ids : \A r \in ids : ~(table[o] < table[r])

\* Four rows returned out of five, at different distances, one farther row
\* left out.
C16_Witness ==
    /\ rpc = "build"
    /\ matchCount = TopK
    /\ Len(table) > TopK
    /\ Len(found) = TopK
    /\ found[1].similarity > found[TopK].similarity
    /\ \E o \in DOMAIN table :
           /\ \A i \in DOMAIN found : found[i].id # o
           /\ table[o] > table[found[TopK].id]

\* C17: in the ingestion run an unhandled promise rejection ends the process
\* with a non-zero status; in the service, once running, the step in which a
\* promise rejects unhandled leaves the process running, and a service that has
\* seen one still ends only by SIGINT, with status 0.
C17_RejectionsAsymmetric ==
    /\ [](iUnhandled > 0 => (exited /\ exitBy = "unhandledRejection" /\ exitCode # 0))
    /\ [][unhandled' > unhandled => (bpc = "running" /\ bpc' = "running")]_vars
    /\ []((unhandled > 0 /\ bpc = "exited") =>
              (sigints > 0 /\ bExitCode = BotSigintExitCode))

\* A handler's promise rejected unhandled and the service went on to answer
\* the next question.
C17_Witness ==
    /\ unhandled > 0
    /\ bpc = "running"
    /\ sigints = 0
    /\ \E u, v \in Units :
        /\ upc[u] = "rejected"
        /\ u < v
        /\ delivered[v] = <<"waiting", "answer">>

\* The handler of message u takes a step.
HandlerStep(u) == upc'[u] # upc[u]

\* C18: a step of a message's handler leaves the stored rows, the pool, the
\* store object and everything any other handler owns as they were.
C18_HandlersLeaveSharedState ==
    [][\A u \in Units :
          HandlerStep(u) =>
              /\ stored' = stored
              /\ bpool' = bpool
              /\ bPoolEndCalls' = bPoolEndCalls
              /\ vectorStore' = vectorStore
              /\ \A v \in Units \ {u} : UnitState(v)' = UnitState(v)]_vars

\* Every message handled, each answered from a table that holds rows.
C18_Witness ==
    /\ stored > 0
    /\ \A u \in Units : upc[u] = "returned" /\ delivered[u] = <<"waiting", "answer">>

\* What the fragments reassemble to: each fragment appended to the text so
\* far, with up to ov characters that end the text and start the fragment
\* written once.
RECURSIVE Rebuilds(_, _, _, _)
Rebuilds(acc, frags, i, ov) ==
    IF i > Len(frags) THEN {acc}
    ELSE LET f == frags[i]
             O == {o \in 0..Min(ov, Min(Len(acc), Len(f))) :
                     SubSeq(acc, Len(acc) - o + 1, Len(acc)) = SubSeq(f, 1, o)}
         IN  UNION {Rebuilds(acc \o SubSeq(f, o + 1, Len(f)), frags, i + 1, ov) : o \in O}

\* C19: under a valid size and overlap, the fragments in index order, with the
\* overlaps collapsed, reassemble to the text that was split.
C19_FragmentsReconstructText ==
    cpc = "done" => rawText \in Rebuilds(<<>>, fragments, 1, ChunkOverlap)

\* C20: when the overlap the splitter is given is not below its size, the run
\* never reaches the storing stage: no pool is created, no call to the store
\* is started, and once the splitting has been left the run is in Failed with
\* the splitting as the failed step.
C20_BadConfigStoresNothing ==
    ChunkOverlap >= ChunkSize =>
        /\ "EmbeddingStoring" \notin Elems(trace)
        /\ "Completed" \notin Elems(trace)
        /\ Elems(steps) \cap StoreSteps = {}
        /\ poolAcquired = 0
        /\ ("splitIntoDocuments" \in Elems(steps) /\ exitBy = "main") =>
               (stage = "Failed" /\ failedStep = "splitIntoDocuments" /\ exitCode # 0)

\* CHUNK_SIZE=2 with CHUNK_OVERLAP not set (100): the run failed in the
\* splitting.
C20_Witness ==
    /\ chunkEnv = [size |-> Num(2), overlap |-> Unset]
    /\ exited /\ exitBy = "main"
    /\ stage = "Failed"
    /\ failedStep = "splitIntoDocuments"
    /\ trace = <<"Idle", "Fetching", "Chunking", "Failed">>

\* A message with no text or only white space, as the handler sees it.
Blank(t) == (~t.has) \/ \A i \in 1..Len(t.s) : IsSpace(t.s[i])

\* A message whose text starts with "/".
Command(t) == t.has /\ Len(t.s) > 0 /\ t.s[1] = "/"

\* C21: a message accepted with no text, blank text or a text starting with
\* "/" starts no retrieval and no generation and is sent none of the waiting,
\* answer, no-information and apology messages; the greeting is sent for
\* "/start" and nothing at all for any other such message.
C21_NonQuestionsIgnored ==
    \A u \in Units :
        (upc[u] # "new" /\ (Blank(text[u]) \/ Command(text[u]))) =>
            /\ docs[u] = -1
            /\ llmCalls[u] = 0
            /\ upc[u] \in {"send:greeting", "returned", "rejected"}
            /\ Elems(thrown[u]) \subseteq {"send:greeting"}
            /\ sent[u] = (IF text[u].has /\ text[u].s = StartCmd
                          THEN <<"greeting">> ELSE <<>>)

\* "/start" greeted, another command ignored.
C21_Witness ==
    \E u, v \in Units :
        /\ text[u] = Str(StartCmd) /\ delivered[u] = <<"greeting">>
        /\ text[v] = Str(<<"/", "x">>) /\ upc[v] = "returned" /\ sent[v] = <<>>

IsStoreStep(s) == s \in StoreSteps
StoringOrder == <<"SELECT 1", "initialize", "addDocuments">>

\* C22: the calls of the storing stage are started in the order SELECT 1,
\* initialize, addDocuments, each at most once and only with the pool created;
\* addDocuments is started only when neither of the two before it failed;
\* while one of them is pending the pool is open and pool.end has not been
\* called, and pool.end is called only once the last one started has settled.
C22_StoringOrder ==
    LET storing == SelectSeq(steps, IsStoreStep)
    IN  /\ Len(storing) <= 3
        /\ storing = SubSeq(StoringOrder, 1, Len(storing))
        /\ storing # <<>> => poolAcquired = 1
        /\ "addDocuments" \in Elems(steps) =>
               (EmbeddingsCanConstruct /\ failedStep \notin {"SELECT 1", "initialize"})
        /\ ipc \in StoreSteps => (pool = "open" /\ poolEndCalls = 0)
        /\ poolEndCalls > 0 =>
               /\ ipc \in {"pool.end", "completed", "exited"}
               /\ storing # <<>>
               /\ failedStep = "none" => storing = StoringOrder

\* A run that stored its batch and released the pool.
C22_Witness ==
    /\ ipc = "completed"
    /\ steps = AllSteps
    /\ nDocs > 0
    /\ pool = "ended"
    /\ poolEndCalls = 1

\* The uuids of a sequence of documents or rows are pairwise distinct.
DistinctUuids(q) ==
    \A i, j \in 1..Len(q) : i # j => q[i].metadata.uuid # q[j].metadata.uuid

\* C23: the batch passed to addDocuments holds exactly one record per fragment,
\* in the order of the fragments, with the fragment's text as its content and a
\* metadata made of the source tag and an identifier of its own: the
\* identifiers of one run are pairwise distinct.
C23_BatchMirrorsFragments ==
    cpc \in {"addDocuments", "completed"} =>
        /\ Len(batch) = Len(fragments)
        /\ \A i \in 1..Len(batch) :
            /\ batch[i].pageContent = fragments[i]
            /\ DOMAIN batch[i] = {"pageContent", "metadata"}
            /\ DOMAIN batch[i].metadata = {"source", "uuid"}
            /\ batch[i].metadata.source = SourceTag
        /\ DistinctUuids(batch)

\* A run has stored a batch of several fragments.
C23_Witness ==
    /\ cpc = "completed"
    /\ Len(fragments) >= 2
    /\ Len(batch) = Len(fragments)
    /\ records # <<>>

\* The two variables hold integers that make valid options.
ProvidedAndValid(e) ==
    /\ e.size.kind = "num"
    /\ e.overlap.kind = "num"
    /\ 0 <= e.overlap.n
    /\ e.overlap.n < e.size.n

\* C24: once the splitter has been constructed, it was given the configured
\* chunkSize and chunkOverlap whenever both are provided and valid
\* (0 <= chunkOverlap < chunkSize), and a default only for an option that is
\* absent.
C24_ConfiguredOptionsUsed ==
    cpc # "split" =>
        /\ ProvidedAndValid(chunkEnv) =>
            /\ ChunkSize = chunkEnv.size.n
            /\ ChunkOverlap = chunkEnv.overlap.n
        /\ ChunkSize = DefaultChunkSize => chunkEnv.size = Unset
        /\ ChunkOverlap = DefaultChunkOverlap => chunkEnv.overlap = Unset

\* The rows of the runs completed so far: run r wrote its n rows, one per
\* fragment and in their order, after those of the runs before it.
RowsOfRuns(n) ==
    /\ Len(records) = runs * n
    /\ \A r \in 1..runs : \A i \in 1..n :
        records[(r - 1) * n + i].content = fragments[i]
    /\ DistinctUuids(records)

\* C25: runs are not deduplicated. After each completed run over the same
\* source of n fragments the table holds n rows per run, each fragment's
\* content once per run under identifiers that are all distinct, and no step
\* removes or changes a row written before.
C25_RunsAccumulate ==
    /\ [](cpc = "completed" => RowsOfRuns(Len(fragments)))
    /\ [][/\ Len(records') >= Len(records)
          /\ SubSeq(records', 1, Len(records)) = records]_vars

\* Two runs over a source of several fragments have completed.
C25_Witness ==
    /\ cpc = "completed"
    /\ runs = 2
    /\ Len(fragments) >= 2
    /\ Len(records) = 2 * Len(fragments)
    /\ records[1].content = records[Len(fragments) + 1].content
    /\ records[1].metadata.uuid # records[Len(fragments) + 1].metadata.uuid

\* The retrieval of message u has been started.
RetrievalStarted(u) ==
    \/ upc[u] = "similaritySearch"
    \/ docs[u] # -1
    \/ "similaritySearch" \in Elems(thrown[u])

\* No bot.sendMessage of the handler of message u has rejected.
EveryDeliverySucceeded(u) ==
    \A i \in 1..Len(thrown[u]) :
        thrown[u][i] \notin {"send:greeting", "send:waiting", "send:noinfo",
                             "send:answer", "send:apology"}

\* C26: for every question the waiting message is the first message sent and it
\* has been delivered when the retrieval starts; and while no delivery has
\* failed at most one final reply (answer, no-information or apology) is sent,
\* and exactly one once the handler has ended.
C26_WaitingThenOneFinalReply ==
    \A u \in Units :
        (upc[u] # "new" /\ ~NotAQuestion(text[u])) =>
            /\ sent[u] # <<>> /\ sent[u][1] = "waiting"
            /\ RetrievalStarted(u) =>
                   (delivered[u] # <<>> /\ delivered[u][1] = "waiting")
            /\ EveryDeliverySucceeded(u) =>
                /\ Len(Finals(u)) <= 1
                /\ upc[u] # "rejected"
                /\ upc[u] = "returned" =>
                       (Len(Finals(u)) = 1 /\ delivered[u] = sent[u])

\* A question whose retrieval failed has been answered by the apology alone,
\* and another by the answer alone, every message delivered.
C26_Witness ==
    \E u, v \in Units :
        /\ thrown[u] = <<"similaritySearch">>
        /\ upc[u] = "returned"
        /\ delivered[u] = <<"waiting", "apology">>
        /\ upc[v] = "returned"
        /\ thrown[v] = <<>>
        /\ sent[v] = <<"waiting", "answer">>

\* C27: in the service pool.end is called at most once over the life of the
\* process, whatever the number and timing of the shutdown signals, and a
\* process that has exited after a shutdown signal has exited with status 0.
C27_PoolEndAtMostOnce ==
    /\ bPoolEndCalls <= 1
    /\ (bpc = "exited" /\ sigints > 0) => bExitCode = BotSigintExitCode

====
